---- MODULE Spec2Model ----
(***************************************************************************)
(* One invocation of the image-generation edge proxy, in its three source  *)
(* variants:                                                               *)
(*   "index"     src/index.js            two-phase AI Horde (submit/poll)  *)
(*   "part_000"  src/unnamed/part_000    SubNP streaming, two endpoints    *)
(*   "part_001"  src/unnamed/part_001    SubNP streaming, CORS proxy       *)
(* Texts are sequences of one-character strings where the code looks       *)
(* inside them (prompt, stream, JSON), and one-piece sequences <<"...">>   *)
(* for the literals the code only passes along.                            *)
(***************************************************************************)
EXTENDS Integers, Sequences, FiniteSets, TLC

VARIABLES
    variant,       \* which worker file is deployed
    pc,            \* position of the invocation
    req,           \* the inbound request
    resp,          \* the Response the handler returned (NoResponse before)
    threw,         \* history: the sites at which an exception was raised
    calls,         \* history: outbound fetch calls, in order
    answers,       \* history: how each outbound call ended, in order
    statusData,    \* index.js: const statusData
    bytes,         \* index.js: const bytes (the fetched image)
    binary,        \* index.js: let binary
    base64,        \* index.js: const base64
    apiResponse,   \* part_000, part_001: apiResponse (the last response received)
    lastError,     \* part_000: let lastError
    ep,            \* part_000: index into apiUrls of the endpoint being tried
    delivered,     \* history: stream text handed out by reader.read() so far
    pending,       \* rest of the line the backend is in the middle of sending
    nlines,        \* number of lines the backend has started
    interpreted,   \* history: the lines the for loop has gone over, in order
    buffer,        \* let buffer
    imageUrl,      \* let imageUrl
    errorMessage,  \* let errorMessage
    status         \* part_000: let status

vars == <<variant, pc, req, resp, threw, calls, answers, statusData, bytes, binary,
          base64, apiResponse, lastError, ep,
          delivered, pending, nlines, interpreted, buffer, imageUrl, errorMessage, status>>

invocationVars == <<variant, req>>
fetchVars == <<apiResponse, lastError, ep>>
encoderVars == <<bytes, binary, base64>>
streamVars == <<delivered, pending, nlines, interpreted, buffer, imageUrl, errorMessage,
                status>>

\* ------------------------------------------------------------------ bounds

\* at most this many lines are sent on one event stream
MaxLines == 2

\* --------------------------------------------------------------- JS values

Lit(s) == <<s>>

\* undefined / null / a member that is not there
Undefined == <<"<undefined>">>

\* !x for a text or undefined
Falsy(x) == x = Undefined \/ x = <<>>

\* x || d
OrElse(x, d) == IF Falsy(x) THEN d ELSE x

Variants == {"index", "part_000", "part_001"}
Streaming == {"part_000", "part_001"}

\* String.prototype.trim, on the characters the prompts are made of
RECURSIVE TrimLeft(_)
TrimLeft(s) == IF s # <<>> /\ Head(s) = " " THEN TrimLeft(Tail(s)) ELSE s

RECURSIVE TrimRight(_)
TrimRight(s) ==
    IF s # <<>> /\ s[Len(s)] = " " THEN TrimRight(SubSeq(s, 1, Len(s) - 1)) ELSE s

Trim(s) == TrimRight(TrimLeft(s))

\* ---------------------------------------------------------------- requests

Methods == {"OPTIONS", "POST", "GET", "PUT", "DELETE"}

\* url.searchParams.get('requestId'): null, '' or a token
RequestIds == {Undefined, <<>>, Lit("abc123")}

\* body.prompt: missing, a string, or a value that is no string
Prompts ==
    {[type |-> "undefined", text |-> Undefined], [type |-> "number", text |-> Lit("5")]}
    \cup {[type |-> "string", text |-> t] :
            t \in {<<>>, <<" ">>, <<"a">>, <<" ", "a", " ">>}}

\* the request body: not JSON, the JSON null, or an object
Bodies ==
    {[kind |-> k, prompt |-> [type |-> "undefined", text |-> Undefined]] :
        k \in {"invalid", "null"}}
    \cup {[kind |-> "object", prompt |-> p] : p \in Prompts}

\* the requests tried on variant v: every method with every body; the
\* requestId parameter, which only index.js reads, in its three forms on GET
\* and absent or a token on the other methods
Requests(v) ==
    {r \in [method : Methods, requestId : RequestIds, body : Bodies] :
        /\ v # "index" => r.requestId = Undefined
        /\ r.method # "GET" => r.requestId # <<>>}

\* --------------------------------------------------------------- responses

EmptyBody ==
    [error |-> Undefined, details |-> Undefined, status |-> Undefined,
     type |-> Undefined, imageUrl |-> Undefined, provider |-> Undefined,
     requestId |-> Undefined, done |-> Undefined,
     queuePosition |-> -1, waitTime |-> -1]

NoResponse == [status |-> 0, kind |-> "none", body |-> EmptyBody]

\* new Response(JSON.stringify(f), {status: code, ...})
Json(code, f) ==
    [status |-> code, kind |-> "json",
     body |-> [k \in DOMAIN EmptyBody |-> IF k \in DOMAIN f THEN f[k] ELSE EmptyBody[k]]]

\* new Response(null, {status: 204, ...})
Preflight == [status |-> 204, kind |-> "null", body |-> EmptyBody]

\* the method-not-allowed response of each variant
MethodNotAllowed(v) ==
    IF v = "part_001"
    THEN [status |-> 405, kind |-> "text", body |-> EmptyBody]
    ELSE Json(405, [error |-> Lit("Method not allowed")])

PromptRequired(v) ==
    Json(IF v = "part_001" THEN 400 ELSE 200, [error |-> Lit("Prompt is required")])

\* -------------------------------------------------------------- exceptions

SyntaxError == [name |-> "SyntaxError", message |-> "Unexpected token"]
TypeError == [name |-> "TypeError", message |-> "Cannot read properties"]
NetworkError == [name |-> "TypeError", message |-> "Network connection lost"]

\* the catch block of the function that is running
CatchBlock(v, fn, e) ==
    CASE v = "part_001" ->
            Json(500, [error |-> Lit(e.message)])
      [] fn = "submitRequest" ->
            Json(200, [error |-> OrElse(Lit(e.message), Lit("Unknown error occurred")),
                       type |-> OrElse(Lit(e.name), Lit("Error"))])
      [] OTHER ->
            Json(200, [error |-> OrElse(Lit(e.message), Lit("Unknown error occurred")),
                       type |-> OrElse(Lit(e.name), Lit("Error")),
                       status |-> Lit("error")])

\* handleRequest(request).catch(...) of the module-format workers
WorkerError(e) ==
    Json(200, [error |-> Lit("Worker error: ") \o OrElse(Lit(e.message), Lit("Unknown error")),
               type |-> OrElse(Lit(e.name), Lit("Error"))])

\* the try block of part_001 closed before the read loop
TrySites_ReadOutside(v) ==
    CASE v = "index" ->
            {"destructure", "trim", "fetch", "text", "json", "member"}
      [] v = "part_000" ->
            {"destructure", "trim", "text", "getReader", "read"}
      [] OTHER ->
            {"request.json", "destructure", "fetch", "text", "getReader"}

\* the sites of each variant that lie inside the function's try block
TrySites(v) ==
    CASE v = "index" ->
            {"destructure", "trim", "fetch", "text", "json", "member"}
      [] v = "part_000" ->
            {"destructure", "trim", "text", "getReader", "read"}
      [] OTHER ->
            {"request.json", "destructure", "fetch", "text", "getReader", "read"}

HasOuterCatch(v) == v \in {"index", "part_000"}

\* the handler returns r
Return(r) ==
    /\ pc' = "done"
    /\ resp' = r
    /\ threw' = threw

\* an exception e is raised at a site of function fn
Raise(fn, site, e) ==
    /\ threw' = Append(threw, site)
    /\ IF site \in TrySites(variant)
       THEN pc' = "done" /\ resp' = CatchBlock(variant, fn, e)
       ELSE IF HasOuterCatch(variant)
            THEN pc' = "done" /\ resp' = WorkerError(e)
            ELSE pc' = "thrown" /\ resp' = NoResponse

\* ------------------------------------------------------- outbound backends

HordeSubmitUrl == Lit("https://stablehorde.net/api/v2/generate/async")
HordeCheckUrl == Lit("https://stablehorde.net/api/v2/generate/check/")
HordeStatusUrl == Lit("https://stablehorde.net/api/v2/generate/status/")

\* const apiUrls
apiUrls ==
    <<Lit("https://t2i.mcpcore.xyz/api/free/generate"),
      Lit("https://subnp.com/api/free/generate")>>

ProxyUrl == Lit("https://t2i.mcpcore.xyz/api/free/generate")

\* a body text the backend sends with a non-OK status
ErrorTexts == {<<>>, <<"e", "r", "r">>}

\* response.text() rejects
Rejects == <<"<rejects>">>

\* no response object (let apiResponse = null)
NullResponse == [status |-> 0, text |-> <<>>, hasBody |-> FALSE]

\* what a backend can answer to a fetch that does not reject
BackendResponses ==
    {[status |-> 200, text |-> <<>>, hasBody |-> b] : b \in BOOLEAN}
    \cup {[status |-> s, text |-> t, hasBody |-> TRUE] :
            s \in {404, 500}, t \in ErrorTexts \cup {Rejects}}

\* every status taken as OK
Ok_Always(r) == TRUE

\* response.ok
Ok(r) == r.status >= 200 /\ r.status <= 299

\* `${n}` for a status code
Num(n) == Lit(ToString(n))

\* -------------------------------------------------------------- characters

DataPrefix == <<"d", "a", "t", "a", ":", " ">>

\* line.slice(6)
PrefixLen == 6

NL == "\n"
Quote == "\""

KeyStatus == <<"s", "t", "a", "t", "u", "s">>
KeyImageUrl == <<"i", "m", "a", "g", "e", "U", "r", "l">>
KeyMessage == <<"m", "e", "s", "s", "a", "g", "e">>
Complete == <<"c", "o", "m", "p", "l", "e", "t", "e">>
Error == <<"e", "r", "r", "o", "r">>
Processing == <<"p", "r", "o", "c", "e", "s", "s", "i", "n", "g">>
Null == <<"n", "u", "l", "l">>
Http == <<"h", "t", "t", "p", ":", "/", "/">>
Https == <<"h", "t", "t", "p", "s", ":", "/", "/">>

\* s.startsWith(p)
StartsWith(s, p) == Len(s) >= Len(p) /\ SubSeq(s, 1, Len(p)) = p

\* s.slice(n)
Slice(s, n) == SubSeq(s, n + 1, Len(s))

\* s.indexOf(c, from): the first index >= from that holds c, 0 when none
IndexOf(s, c, from) ==
    LET hits == {i \in from..Len(s) : s[i] = c} IN
    IF hits = {} THEN 0 ELSE CHOOSE i \in hits : \A j \in hits : i <= j

\* s.split('\n')
RECURSIVE Split(_)
Split(s) ==
    LET i == IndexOf(s, NL, 1) IN
    IF i = 0 THEN <<s>>
    ELSE <<SubSeq(s, 1, i - 1)>> \o Split(SubSeq(s, i + 1, Len(s)))

\* -------------------------------------------------------------- JSON.parse
\* JSON.parse on the texts a stream line can hold: the literal null and
\* objects whose members are strings without escapes; anything else met here
\* (a cut-off object, a bare word) is a SyntaxError.

EmptyObject == [k \in {} |-> <<>>]

ParseFail == [ok |-> FALSE, kind |-> "error", obj |-> EmptyObject]

\* a string literal starting at s[i]
ParseString(s, i) ==
    IF i <= Len(s) /\ s[i] = Quote
    THEN LET j == IndexOf(s, Quote, i + 1) IN
         IF j = 0 THEN [ok |-> FALSE, val |-> <<>>, next |-> 0]
         ELSE [ok |-> TRUE, val |-> SubSeq(s, i + 1, j - 1), next |-> j + 1]
    ELSE [ok |-> FALSE, val |-> <<>>, next |-> 0]

\* the members of an object from s[i] on, up to the closing brace that ends s
RECURSIVE ParseMembers(_, _, _)
ParseMembers(s, i, obj) ==
    LET k == ParseString(s, i) IN
    IF ~k.ok \/ k.next > Len(s) \/ s[k.next] # ":" THEN ParseFail
    ELSE LET v == ParseString(s, k.next + 1) IN
         IF ~v.ok \/ v.next > Len(s) THEN ParseFail
         ELSE LET obj2 == [x \in DOMAIN obj \cup {k.val} |->
                              IF x = k.val THEN v.val ELSE obj[x]] IN
              IF s[v.next] = "}" /\ v.next = Len(s)
              THEN [ok |-> TRUE, kind |-> "object", obj |-> obj2]
              ELSE IF s[v.next] = "," THEN ParseMembers(s, v.next + 1, obj2)
              ELSE ParseFail

JSONParse(s) ==
    IF s = Null THEN [ok |-> TRUE, kind |-> "null", obj |-> EmptyObject]
    ELSE IF s = <<"{", "}">> THEN [ok |-> TRUE, kind |-> "object", obj |-> EmptyObject]
    ELSE IF Len(s) >= 2 /\ s[1] = "{" THEN ParseMembers(s, 2, EmptyObject)
    ELSE ParseFail

\* data.key
Get(obj, key) == IF key \in DOMAIN obj THEN obj[key] ELSE Undefined

\* ---------------------------------------------------- event-stream decoder

\* errorMessage = data.message || <default>
DefaultError(v) ==
    IF v = "part_000" THEN Lit("Unknown error from SubNP") ELSE Lit("Unknown error")

\* a parse failure taken as an error of the stream instead of being swallowed
ProcessLine_ParseFatal(v, st, line) ==
    IF StartsWith(line, DataPrefix)
    THEN LET p == JSONParse(Slice(line, PrefixLen)) IN
         IF ~p.ok \/ p.kind = "null" THEN [st EXCEPT !.errorMessage = Lit(SyntaxError.message)]
         ELSE LET data == p.obj IN
              IF Get(data, KeyStatus) = Complete /\ ~Falsy(Get(data, KeyImageUrl))
              THEN [st EXCEPT !.imageUrl = Get(data, KeyImageUrl),
                              !.status = IF v = "part_000" THEN Lit("completed") ELSE @]
              ELSE IF Get(data, KeyStatus) = Error
              THEN [st EXCEPT !.errorMessage = OrElse(Get(data, KeyMessage), DefaultError(v)),
                              !.status = IF v = "part_000" THEN Lit("error") ELSE @]
              ELSE IF v = "part_000" /\ Get(data, KeyStatus) = Processing
              THEN [st EXCEPT !.status = Lit("processing")]
              ELSE st
    ELSE st

\* the first terminal record kept instead of the last
ProcessLine_FirstWins(v, st, line) ==
    IF StartsWith(line, DataPrefix)
    THEN LET p == JSONParse(Slice(line, PrefixLen)) IN
         IF ~p.ok \/ p.kind = "null" THEN st
         ELSE LET data == p.obj IN
              IF Get(data, KeyStatus) = Complete /\ ~Falsy(Get(data, KeyImageUrl))
              THEN [st EXCEPT !.imageUrl = OrElse(@, Get(data, KeyImageUrl)),
                              !.status = IF v = "part_000" THEN Lit("completed") ELSE @]
              ELSE IF Get(data, KeyStatus) = Error
              THEN [st EXCEPT !.errorMessage =
                                  OrElse(@, OrElse(Get(data, KeyMessage), DefaultError(v))),
                              !.status = IF v = "part_000" THEN Lit("error") ELSE @]
              ELSE IF v = "part_000" /\ Get(data, KeyStatus) = Processing
              THEN [st EXCEPT !.status = Lit("processing")]
              ELSE st
    ELSE st

\* the body of `for (const line of lines)`: one line applied to the
\* decoder's variables st = [imageUrl, errorMessage, status]
ProcessLine(v, st, line) ==
    IF StartsWith(line, DataPrefix)
    THEN LET p == JSONParse(Slice(line, PrefixLen)) IN
         IF ~p.ok \/ p.kind = "null" THEN st
         ELSE LET data == p.obj IN
              IF Get(data, KeyStatus) = Complete /\ ~Falsy(Get(data, KeyImageUrl))
              THEN [st EXCEPT !.imageUrl = Get(data, KeyImageUrl),
                              !.status = IF v = "part_000" THEN Lit("completed") ELSE @]
              ELSE IF Get(data, KeyStatus) = Error
              THEN [st EXCEPT !.errorMessage = OrElse(Get(data, KeyMessage), DefaultError(v)),
                              !.status = IF v = "part_000" THEN Lit("error") ELSE @]
              ELSE IF v = "part_000" /\ Get(data, KeyStatus) = Processing
              THEN [st EXCEPT !.status = Lit("processing")]
              ELSE st
    ELSE st

RECURSIVE ProcessLines(_, _, _)
ProcessLines(v, st, lines) ==
    IF lines = <<>> THEN st
    ELSE ProcessLines(v, ProcessLine(v, st, Head(lines)), Tail(lines))

\* the fragment thrown away instead of being kept
KeptFragment_Dropped(lines) == <<>>

\* lines.pop() || '' : the fragment kept as the new buffer
KeptFragment(lines) == OrElse(lines[Len(lines)], <<>>)

\* the lines left in `lines` after lines.pop()
CompleteLines(lines) == SubSeq(lines, 1, Len(lines) - 1)

\* one turn of the read loop on a chunk: [buffer, imageUrl, errorMessage,
\* status], and the lines the for loop went over
Consume(v, buf, st, chunk) ==
    LET lines == Split(buf \o chunk)
        st2 == ProcessLines(v, st, CompleteLines(lines))
    IN [buffer |-> KeptFragment(lines), imageUrl |-> st2.imageUrl,
        errorMessage |-> st2.errorMessage, status |-> st2.status,
        lines |-> CompleteLines(lines)]

\* the image checked before the error
StreamResult_UrlFirst(v, url, err) ==
    IF v = "part_000"
    THEN IF ~Falsy(url)
         THEN Json(200, [imageUrl |-> url, provider |-> Lit("subnp"),
                         status |-> Lit("completed")])
         ELSE IF ~Falsy(err) THEN Json(200, [error |-> err, status |-> Lit("error")])
              ELSE Json(200, [error |-> Lit("No image URL received from SubNP"),
                              status |-> Lit("error")])
    ELSE IF ~Falsy(url) THEN Json(200, [imageUrl |-> url])
         ELSE IF ~Falsy(err) THEN Json(500, [error |-> err])
              ELSE Json(500, [error |-> Lit("No image URL received")])

\* the check for a missing image left out
StreamResult_NoUrlCheck(v, url, err) ==
    IF v = "part_000"
    THEN IF ~Falsy(err) THEN Json(200, [error |-> err, status |-> Lit("error")])
         ELSE Json(200, [imageUrl |-> url, provider |-> Lit("subnp"),
                         status |-> Lit("completed")])
    ELSE IF ~Falsy(err) THEN Json(500, [error |-> err])
         ELSE Json(200, [imageUrl |-> url])

\* the response built once the read loop has ended
StreamResult(v, url, err) ==
    IF v = "part_000"
    THEN IF ~Falsy(err) THEN Json(200, [error |-> err, status |-> Lit("error")])
         ELSE IF Falsy(url)
              THEN Json(200, [error |-> Lit("No image URL received from SubNP"),
                              status |-> Lit("error")])
              ELSE Json(200, [imageUrl |-> url, provider |-> Lit("subnp"),
                              status |-> Lit("completed")])
    ELSE IF ~Falsy(err) THEN Json(500, [error |-> err])
         ELSE IF Falsy(url) THEN Json(500, [error |-> Lit("No image URL received")])
              ELSE Json(200, [imageUrl |-> url])

\* ------------------------------------------------- what a stream can carry

Str(t) == <<Quote>> \o t \o <<Quote>>
Member(k, val) == Str(k) \o <<":">> \o Str(val)
DataLine1(m) == DataPrefix \o <<"{">> \o m \o <<"}">>
DataLine2(m1, m2) == DataPrefix \o <<"{">> \o m1 \o <<",">> \o m2 \o <<"}">>

UrlA == Http \o <<"a">>
UrlB == <<"d", "a", "t", "a", ":", "b">>

\* data: {"status":"complete","imageUrl":"http://a"}
LineCompleteA == DataLine2(Member(KeyStatus, Complete), Member(KeyImageUrl, UrlA))
\* data: {"status":"complete","imageUrl":"data:b"}
LineCompleteB == DataLine2(Member(KeyStatus, Complete), Member(KeyImageUrl, UrlB))
\* data: {"status":"complete"}
LineCompleteNoUrl == DataLine1(Member(KeyStatus, Complete))
\* data: {"status":"complete","imageUrl":""}
LineCompleteEmptyUrl == DataLine2(Member(KeyStatus, Complete), Member(KeyImageUrl, <<>>))
\* data: {"status":"error","message":"m"}
LineErrorMsg == DataLine2(Member(KeyStatus, Error), Member(KeyMessage, <<"m">>))
\* data: {"status":"error"}
LineErrorNoMsg == DataLine1(Member(KeyStatus, Error))
\* data: {"status":"processing"}
LineProcessing == DataLine1(Member(KeyStatus, Processing))
\* data: {"status":     (cut-off JSON)
LineBadJson == DataPrefix \o <<"{">> \o Str(KeyStatus) \o <<":">>
\* data: null
LineNull == DataPrefix \o Null
\* data:{}              (no blank after the colon: not the prefix)
LineNoPrefix == <<"d", "a", "t", "a", ":", "{", "}">>
\* the blank line that separates events
LineEmpty == <<>>

StreamLines ==
    {LineCompleteA, LineCompleteB, LineCompleteNoUrl, LineCompleteEmptyUrl,
     LineErrorMsg, LineErrorNoMsg, LineProcessing, LineBadJson, LineNull,
     LineNoPrefix, LineEmpty}

\* the offsets inside a line at which the transport cuts it: after the first
\* character, inside the prefix, inside the JSON, before the newline
CutOffsets == {1, 3, 10}

\* the characters of the line in progress that have been handed out
LineOffset == LET parts == Split(delivered) IN Len(parts[Len(parts)])

\* the lengths of the chunk that can be cut from a line of which `sent`
\* characters are out and `rest` is still to come
CutSizes(sent, rest) ==
    {k \in 1..Len(rest) : sent + k \in CutOffsets \cup {sent + Len(rest) - 1, sent + Len(rest)}}

\* what the next reader.read() can hand out: [chunk, rest, started]
NextChunks ==
    LET room == MaxLines - nlines
        cur == IF pending # <<>>
               THEN {[text |-> pending, sent |-> LineOffset, started |-> 0]}
               ELSE {[text |-> Append(l, NL), sent |-> 0, started |-> 1] :
                        l \in {x \in StreamLines : room >= 1}}
        more == {[text |-> c.text \o Append(l, NL), started |-> c.started + 1] :
                    c \in cur, l \in {x \in StreamLines : room >= 2 \/ (room >= 1 /\ pending # <<>>)}}
    IN UNION {{[chunk |-> SubSeq(c.text, 1, k), rest |-> SubSeq(c.text, k + 1, Len(c.text)),
                started |-> c.started] : k \in CutSizes(c.sent, c.text)} : c \in cur}
       \cup {[chunk |-> c.text, rest |-> <<>>, started |-> c.started] : c \in more}

\* -------------------------------------------------------------------- Init

\* let buffer = ''
FreshBuffer == <<>>

\* statusData before the check call has answered
NoStatusData ==
    [kind |-> "none", faulted |-> FALSE, done |-> FALSE, queue_position |-> -1, wait_time |-> -1]

Init ==
    /\ variant \in Variants
    /\ pc = "idle"
    /\ req = [method |-> "OPTIONS", requestId |-> Undefined,
              body |-> [kind |-> "invalid",
                        prompt |-> [type |-> "undefined", text |-> Undefined]]]
    /\ resp = NoResponse
    /\ threw = <<>>
    /\ calls = <<>>
    /\ answers = <<>>
    /\ statusData = NoStatusData
    /\ bytes = <<>>
    /\ binary = <<>>
    /\ base64 = <<>>
    /\ apiResponse = NullResponse
    /\ lastError = Undefined
    /\ ep = 0
    /\ delivered = <<>>
    /\ pending = <<>>
    /\ nlines = 0
    /\ interpreted = <<>>
    /\ buffer = <<>>
    /\ imageUrl = Undefined
    /\ errorMessage = Undefined
    /\ status = Lit("processing")

\* ------------------------------------------------------------------ router

\* handleRequest of each variant: the route the request takes
Route(v, r) ==
    CASE r.method = "OPTIONS" -> "preflight"
      [] v = "index" /\ r.method = "GET" /\ ~Falsy(r.requestId) -> "checkStatus"
      [] r.method = "POST" ->
            IF v = "index" THEN "submitRequest"
            ELSE IF v = "part_000" THEN "generateImage" ELSE "proxy"
      [] OTHER -> "notAllowed"

HandleRequest ==
    /\ pc = "idle"
    /\ \E r \in Requests(variant) :
        /\ req' = r
        /\ LET route == Route(variant, r) IN
            CASE route = "preflight" -> Return(Preflight)
              [] route = "notAllowed" -> Return(MethodNotAllowed(variant))
              [] OTHER -> pc' = route /\ resp' = resp /\ threw' = threw
    /\ UNCHANGED <<encoderVars, statusData, variant, calls, answers, fetchVars, streamVars>>

\* ------------------------------------------------------ submit: the body

InvalidJson == Json(200, [error |-> Lit("Invalid JSON in request body"),
                          details |-> Lit(SyntaxError.message)])

\* an outbound fetch is issued
Call(url, prompt) == calls' = Append(calls, [url |-> url, prompt |-> prompt])

\* the status a rejected fetch is recorded with
Rejected == 0

\* the awaited fetch settles: with a response of status code, or rejected
Answered(code) == answers' = Append(answers, code)

\* submitRequest of index.js up to the outbound fetch
SubmitRequest ==
    /\ pc = "submitRequest"
    /\ LET b == req.body IN
        CASE b.kind = "invalid" ->
                /\ threw' = Append(threw, "request.json")
                /\ pc' = "done" /\ resp' = InvalidJson /\ calls' = calls
          [] b.kind = "null" ->
                Raise("submitRequest", "destructure", TypeError) /\ calls' = calls
          [] b.kind = "object" /\ Falsy(b.prompt.text) ->
                Return(PromptRequired(variant)) /\ calls' = calls
          [] b.kind = "object" /\ ~Falsy(b.prompt.text) /\ b.prompt.type # "string" ->
                Raise("submitRequest", "trim", TypeError) /\ calls' = calls
          [] OTHER ->
                /\ Call(HordeSubmitUrl, Trim(b.prompt.text))
                /\ pc' = "submitFetch" /\ resp' = resp /\ threw' = threw
    /\ UNCHANGED <<encoderVars, statusData, invocationVars, answers, fetchVars, streamVars>>

\* the failure envelope after the endpoint loop of part_000
EndpointFailure(r, lastErr) ==
    LET errorText == IF r # NullResponse THEN r.text
                     ELSE OrElse(lastErr, Lit("All endpoints failed"))
        shown == IF r # NullResponse THEN Num(r.status) ELSE Lit("Connection failed")
    IN Json(200, [error |-> Lit("SubNP API error: ") \o shown, details |-> errorText])

\* generateImage of part_000 up to the first outbound fetch
GenerateImage ==
    /\ pc = "generateImage"
    /\ LET b == req.body IN
        CASE b.kind = "invalid" ->
                /\ threw' = Append(threw, "request.json")
                /\ pc' = "done" /\ resp' = InvalidJson
                /\ UNCHANGED <<calls, fetchVars>>
          [] b.kind = "null" ->
                /\ Raise("generateImage", "destructure", TypeError)
                /\ UNCHANGED <<calls, fetchVars>>
          [] b.kind = "object" /\ Falsy(b.prompt.text) ->
                /\ Return(PromptRequired(variant))
                /\ UNCHANGED <<calls, fetchVars>>
          [] b.kind = "object" /\ ~Falsy(b.prompt.text) /\ b.prompt.type # "string" ->
                \* prompt.trim() throws inside the loop's try, once per endpoint
                /\ threw' = threw \o [i \in 1..Len(apiUrls) |-> "trim"]
                /\ lastError' = Lit(TypeError.message)
                /\ ep' = Len(apiUrls)
                /\ pc' = "done"
                /\ resp' = EndpointFailure(NullResponse, Lit(TypeError.message))
                /\ UNCHANGED <<calls, apiResponse>>
          [] OTHER ->
                /\ Call(apiUrls[1], Trim(b.prompt.text))
                /\ ep' = 1
                /\ pc' = "endpointFetch" /\ resp' = resp /\ threw' = threw
                /\ UNCHANGED <<apiResponse, lastError>>
    /\ UNCHANGED <<encoderVars, statusData, invocationVars, answers, streamVars>>

\* handleRequest of part_001 from its try to the outbound fetch
ProxyRequest ==
    /\ pc = "proxy"
    /\ LET b == req.body IN
        CASE b.kind = "invalid" ->
                Raise("handleRequest", "request.json", SyntaxError) /\ calls' = calls
          [] b.kind = "null" ->
                Raise("handleRequest", "destructure", TypeError) /\ calls' = calls
          [] b.kind = "object" /\ Falsy(b.prompt.text) ->
                Return(PromptRequired(variant)) /\ calls' = calls
          [] OTHER ->
                /\ Call(ProxyUrl, b.prompt.text)
                /\ pc' = "proxyFetch" /\ resp' = resp /\ threw' = threw
    /\ UNCHANGED <<encoderVars, statusData, invocationVars, answers, fetchVars, streamVars>>

\* ------------------------------------------------- submit: the backend answers

\* response.json() of the submit call: rejects, or what it resolves to
SubmitDatas ==
    {[kind |-> "invalid", id |-> Undefined], [kind |-> "null", id |-> Undefined],
     [kind |-> "object", id |-> Undefined], [kind |-> "object", id |-> <<>>],
     [kind |-> "object", id |-> Lit("abc123")]}

\* submitRequest of index.js from the answer of the outbound fetch on
SubmitResponse ==
    /\ pc = "submitFetch"
    /\ \/ Raise("submitRequest", "fetch", NetworkError) /\ Answered(Rejected)
       \/ \E r \in BackendResponses :
            /\ Answered(r.status)
            /\ IF ~Ok(r)
               THEN IF r.text = Rejects
                    THEN Raise("submitRequest", "text", NetworkError)
                    ELSE Return(Json(200, [error |-> Lit("AI Horde submission failed: ")
                                                       \o Num(r.status),
                                           details |-> r.text]))
               ELSE \E d \in SubmitDatas :
                       CASE d.kind = "invalid" -> Raise("submitRequest", "json", SyntaxError)
                         [] d.kind = "null" -> Raise("submitRequest", "member", TypeError)
                         [] d.kind = "object" /\ Falsy(d.id) ->
                               Return(Json(200, [error |-> Lit("No request ID returned from AI Horde"),
                                                 details |-> Lit("{}")]))
                         [] OTHER ->
                               Return(Json(200, [requestId |-> d.id, status |-> Lit("submitted"),
                                                 provider |-> Lit("aihorde")]))
    /\ UNCHANGED <<encoderVars, statusData, invocationVars, calls, fetchVars, streamVars>>

\* const reader = apiResponse.body.getReader(), and the read loop is entered
OpenStream(fn, r) ==
    IF r.hasBody
    THEN pc' = "reading" /\ resp' = resp /\ threw' = threw
    ELSE Raise(fn, "getReader", TypeError)

\* generateImage of part_000 once the endpoint loop has ended with r, lastErr
AfterEndpoints(r, lastErr) ==
    IF r = NullResponse \/ ~Ok(r)
    THEN IF r # NullResponse /\ r.text = Rejects
         THEN Raise("generateImage", "text", NetworkError)
         ELSE Return(EndpointFailure(r, lastErr))
    ELSE OpenStream("generateImage", r)

\* the loop calls the endpoint it has just tried once more
NextEndpoint_Revisits(r, lastErr) ==
    IF ep < Len(apiUrls)
    THEN /\ Call(apiUrls[ep], calls[Len(calls)].prompt)
         /\ ep' = ep + 1
         /\ pc' = "endpointFetch" /\ resp' = resp /\ threw' = threw
    ELSE /\ AfterEndpoints(r, lastErr)
         /\ UNCHANGED <<calls, ep>>

\* the loop goes on to the next endpoint, or ends when there is none
NextEndpoint(r, lastErr) ==
    IF ep < Len(apiUrls)
    THEN /\ Call(apiUrls[ep + 1], calls[Len(calls)].prompt)
         /\ ep' = ep + 1
         /\ pc' = "endpointFetch" /\ resp' = resp /\ threw' = threw
    ELSE /\ AfterEndpoints(r, lastErr)
         /\ UNCHANGED <<calls, ep>>

\* the fetch of endpoint ep rejects: catch (fetchError), continue
EndpointError ==
    /\ pc = "endpointFetch"
    /\ Answered(Rejected)
    /\ lastError' = Lit(NetworkError.message)
    /\ apiResponse' = apiResponse
    /\ IF ep < Len(apiUrls)
       THEN /\ Call(apiUrls[ep + 1], calls[Len(calls)].prompt)
            /\ ep' = ep + 1
            /\ pc' = "endpointFetch" /\ resp' = resp
            /\ threw' = Append(threw, "fetch")
       ELSE /\ UNCHANGED <<calls, ep>>
            /\ LET r == apiResponse IN
               IF r # NullResponse /\ r.text = Rejects
               THEN /\ threw' = threw \o <<"fetch", "text">>
                    /\ pc' = "done"
                    /\ resp' = CatchBlock(variant, "generateImage", NetworkError)
               ELSE /\ threw' = Append(threw, "fetch")
                    /\ pc' = "done"
                    /\ resp' = EndpointFailure(r, Lit(NetworkError.message))
    /\ UNCHANGED <<encoderVars, statusData, invocationVars, streamVars>>

\* the endpoint loop stops only at an OK answer
Breaks_OkOnly(r) == Ok(r)

\* the answer r of an endpoint ends the endpoint loop: OK, or not a 404
Breaks(r) == Ok(r) \/ r.status # 404

\* the fetch of endpoint ep answers r
EndpointResponse ==
    /\ pc = "endpointFetch"
    /\ \E r \in BackendResponses :
        /\ Answered(r.status)
        /\ apiResponse' = r
        /\ IF Breaks(r)
           THEN /\ AfterEndpoints(r, lastError)
                /\ UNCHANGED <<calls, ep, lastError>>
           ELSE /\ lastError' = Lit("404 from ") \o apiUrls[ep]
                /\ NextEndpoint(r, lastError')
    /\ UNCHANGED <<encoderVars, statusData, invocationVars, streamVars>>

\* handleRequest of part_001 from the answer of the outbound fetch on
ProxyResponse ==
    /\ pc = "proxyFetch"
    /\ \/ Raise("handleRequest", "fetch", NetworkError) /\ apiResponse' = apiResponse
          /\ Answered(Rejected)
       \/ \E r \in BackendResponses :
            /\ Answered(r.status)
            /\ IF ~Ok(r)
               THEN /\ apiResponse' = r
                    /\ IF r.text = Rejects
                       THEN Raise("handleRequest", "text", NetworkError)
                       ELSE Return(Json(r.status, [error |-> Lit("API error: ") \o Num(r.status),
                                                   details |-> r.text]))
               ELSE apiResponse' = r /\ OpenStream("handleRequest", r)
    /\ UNCHANGED <<encoderVars, statusData, invocationVars, calls, lastError, ep, streamVars>>

\* ------------------------------------------------------- binary encoder

\* const chunkSize = 8192
chunkSize == 8192

Base64Alphabet ==
    <<"A", "B", "C", "D", "E", "F", "G", "H", "I", "J", "K", "L", "M", "N", "O", "P",
      "Q", "R", "S", "T", "U", "V", "W", "X", "Y", "Z", "a", "b", "c", "d", "e", "f",
      "g", "h", "i", "j", "k", "l", "m", "n", "o", "p", "q", "r", "s", "t", "u", "v",
      "w", "x", "y", "z", "0", "1", "2", "3", "4", "5", "6", "7", "8", "9", "+", "/">>

\* String.fromCharCode.apply(null, chunkArray): one code unit per number
FromCharCode(codes) == [k \in 1..Len(codes) |-> codes[k] % 65536]

\* bytes.slice(i, i + size)
ByteSlice(b, i, size) == SubSeq(b, i + 1, IF i + size < Len(b) THEN i + size ELSE Len(b))

\* the for loop with chunks that take one byte too many
RECURSIVE ChunkLoop_Overlap(_, _, _, _)
ChunkLoop_Overlap(b, i, size, bin) ==
    IF i >= Len(b) THEN bin
    ELSE ChunkLoop_Overlap(b, i + size, size, bin \o FromCharCode(ByteSlice(b, i, size + 1)))

\* the for loop over bytes, from index i on with the text bin built so far:
\* binary += String.fromCharCode.apply(null, Array.from(bytes.slice(i, i + chunkSize)))
RECURSIVE ChunkLoop(_, _, _, _)
ChunkLoop(b, i, size, bin) ==
    IF i >= Len(b) THEN bin
    ELSE ChunkLoop(b, i + size, size, bin \o FromCharCode(ByteSlice(b, i, size)))

\* btoa(b) of a text of code units up to 255: four characters for every three
\* code units, the last group padded with "="
Btoa(b) ==
    LET n == Len(b)
        at(j) == IF j <= n THEN b[j] ELSE 0
        char(k) ==
            LET g == (k - 1) \div 4
                b1 == at(3 * g + 1)
                b2 == at(3 * g + 2)
                b3 == at(3 * g + 3)
            IN CASE (k - 1) % 4 = 0 -> Base64Alphabet[(b1 \div 4) + 1]
                 [] (k - 1) % 4 = 1 -> Base64Alphabet[((b1 % 4) * 16) + (b2 \div 16) + 1]
                 [] (k - 1) % 4 = 2 ->
                        IF 3 * g + 2 > n THEN "="
                        ELSE Base64Alphabet[((b2 % 16) * 4) + (b3 \div 64) + 1]
                 [] OTHER ->
                        IF 3 * g + 3 > n THEN "=" ELSE Base64Alphabet[(b3 % 64) + 1]
    IN [k \in 1..(4 * ((n + 2) \div 3)) |-> char(k)]

\* `data:${contentType};base64,${base64}` of a fetched image
EncodeImage(contentType, b) ==
    Lit("data:") \o OrElse(contentType, Lit("image/png")) \o Lit(";base64,")
        \o Btoa(ChunkLoop(b, 0, chunkSize, <<>>))

\* ------------------------------------------------------------------- poll

\* checkStatus of index.js up to the check call
CheckStatus ==
    /\ pc = "checkStatus"
    /\ Call(HordeCheckUrl \o req.requestId, Undefined)
    /\ pc' = "checkFetch"
    /\ UNCHANGED <<encoderVars, statusData, invocationVars, resp, threw, answers, fetchVars,
                   streamVars>>

\* statusResponse.json(): rejects, or what it resolves to
StatusDatas ==
    {[kind |-> k, faulted |-> FALSE, done |-> FALSE, queue_position |-> -1, wait_time |-> -1] :
        k \in {"invalid", "null"}}
    \cup [kind : {"object"}, faulted : BOOLEAN, done : BOOLEAN,
          queue_position : {-1, 0, 3}, wait_time : {-1, 12}]

\* n || 0 for a number left as it is
OrZero_Absent(n) == n

\* n || 0 for a number or undefined (-1)
OrZero(n) == IF n = -1 THEN 0 ELSE n

\* the job counts as faulted only while it is not done
IsFaulted_UnlessDone(d) == d.faulted /\ ~d.done

\* if (statusData.faulted), tested before statusData.done is looked at
IsFaulted(d) == d.faulted

\* checkStatus from the answer of the check call to the result call
CheckResponse ==
    /\ pc = "checkFetch"
    /\ \/ /\ Raise("checkStatus", "fetch", NetworkError) /\ calls' = calls
          /\ Answered(Rejected) /\ statusData' = statusData
       \/ \E r \in BackendResponses :
            /\ Answered(r.status)
            /\ IF ~Ok(r)
               THEN /\ Return(Json(200, [error |-> Lit("Failed to check status: ") \o Num(r.status),
                                         status |-> Lit("error")]))
                    /\ calls' = calls /\ statusData' = statusData
               ELSE \E d \in StatusDatas :
                       /\ statusData' = IF d.kind = "invalid" THEN statusData ELSE d
                       /\ CASE d.kind = "invalid" ->
                                  Raise("checkStatus", "json", SyntaxError) /\ calls' = calls
                            [] d.kind = "null" ->
                                  Raise("checkStatus", "member", TypeError) /\ calls' = calls
                            [] d.kind = "object" /\ IsFaulted(d) ->
                                  /\ Return(Json(200, [error |-> Lit("Image generation failed on AI Horde"),
                                                       details |-> Lit("true"),
                                                       status |-> Lit("failed")]))
                                  /\ calls' = calls
                            [] d.kind = "object" /\ ~IsFaulted(d) /\ ~d.done ->
                                  /\ Return(Json(200, [status |-> Lit("processing"),
                                                       queuePosition |-> OrZero(d.queue_position),
                                                       waitTime |-> OrZero(d.wait_time),
                                                       done |-> Lit("false")]))
                                  /\ calls' = calls
                            [] OTHER ->
                                  /\ Call(HordeStatusUrl \o req.requestId, Undefined)
                                  /\ pc' = "resultFetch" /\ resp' = resp /\ threw' = threw
    /\ UNCHANGED <<encoderVars, invocationVars, fetchVars, streamVars>>

UrlHttps == Https \o <<"b">>
InlineBase64 == <<"Q", "U", "I", "=">>

\* resultResponse.json(): rejects, or what it resolves to
ResultDatas ==
    {[kind |-> k, generations |-> "absent", img |-> Undefined] : k \in {"invalid", "null"}}
    \cup {[kind |-> "object", generations |-> g, img |-> Undefined] : g \in {"absent", "empty"}}
    \cup {[kind |-> "object", generations |-> "some", img |-> i] :
            i \in {Undefined, <<>>, UrlA, UrlHttps, InlineBase64}}

\* the envelope of a finished generation
Completed(dataUrl) ==
    Json(200, [imageUrl |-> dataUrl, provider |-> Lit("aihorde"), status |-> Lit("completed")])

\* checkStatus from the answer of the result call to the image fetch
ResultResponse ==
    /\ pc = "resultFetch"
    /\ \/ Raise("checkStatus", "fetch", NetworkError) /\ calls' = calls /\ Answered(Rejected)
       \/ \E r \in BackendResponses :
            /\ Answered(r.status)
            /\ IF ~Ok(r)
               THEN /\ Return(Json(200, [error |-> Lit("Failed to get generation result"),
                                         details |-> Lit("Status: ") \o Num(r.status),
                                         status |-> Lit("error")]))
                    /\ calls' = calls
               ELSE \E d \in ResultDatas :
                       CASE d.kind = "invalid" ->
                               Raise("checkStatus", "json", SyntaxError) /\ calls' = calls
                         [] d.kind = "null" ->
                               Raise("checkStatus", "member", TypeError) /\ calls' = calls
                         [] d.kind = "object" /\ (d.generations # "some" \/ Falsy(d.img)) ->
                               /\ Return(Json(200, [error |-> Lit("No image in generation result"),
                                                    details |-> Lit("{}"),
                                                    status |-> Lit("error")]))
                               /\ calls' = calls
                         [] d.kind = "object" /\ d.generations = "some" /\ ~Falsy(d.img)
                            /\ (StartsWith(d.img, Http) \/ StartsWith(d.img, Https)) ->
                               /\ Call(d.img, Undefined)
                               /\ pc' = "imageFetch" /\ resp' = resp /\ threw' = threw
                         [] OTHER ->
                               /\ Return(Completed(Lit("data:image/png;base64,") \o d.img))
                               /\ calls' = calls
    /\ UNCHANGED <<encoderVars, statusData, invocationVars, fetchVars, streamVars>>

\* imageResponse.headers.get('content-type')
ContentTypes == {Undefined, Lit("image/webp")}

\* the bytes of a fetched image
ImageBytes == {<<>>, <<255>>, <<77, 97>>, <<0, 16, 131>>, <<80, 78, 71, 13>>}

\* catch (fetchError) around the image fetch and its conversion
ImageCatch(site, e) ==
    /\ threw' = Append(threw, site)
    /\ pc' = "done"
    /\ resp' = Json(200, [error |-> Lit("Failed to fetch and convert image"),
                          details |-> Lit(e.message), status |-> Lit("error")])

\* checkStatus from the answer of the image fetch on
ImageResponse ==
    /\ pc = "imageFetch"
    /\ \/ ImageCatch("fetch", NetworkError) /\ Answered(Rejected) /\ UNCHANGED encoderVars
       \/ \E r \in BackendResponses :
            /\ Answered(r.status)
            /\ IF ~Ok(r)
               THEN /\ Return(Json(200, [error |-> Lit("Failed to fetch generated image"),
                                         details |-> Lit("HTTP ") \o Num(r.status),
                                         status |-> Lit("error")]))
                    /\ UNCHANGED encoderVars
               ELSE \/ ImageCatch("arrayBuffer", NetworkError) /\ UNCHANGED encoderVars
                    \/ \E ct \in ContentTypes, b \in ImageBytes :
                           /\ bytes' = b
                           /\ binary' = ChunkLoop(b, 0, chunkSize, <<>>)
                           /\ base64' = Btoa(binary')
                           /\ Return(Completed(EncodeImage(ct, b)))
    /\ UNCHANGED <<statusData, invocationVars, calls, fetchVars, streamVars>>

\* ---------------------------------------------------------- the read loop

FunctionName == IF variant = "part_000" THEN "generateImage" ELSE "handleRequest"

\* one turn of the while loop on the chunk c = [chunk, rest, started]
Deliver(c) ==
    LET st == [imageUrl |-> imageUrl, errorMessage |-> errorMessage, status |-> status]
        n == Consume(variant, buffer, st, c.chunk)
    IN /\ delivered' = delivered \o c.chunk
       /\ pending' = c.rest
       /\ nlines' = nlines + c.started
       /\ interpreted' = interpreted \o n.lines
       /\ buffer' = n.buffer
       /\ imageUrl' = n.imageUrl
       /\ errorMessage' = n.errorMessage
       /\ status' = n.status

\* reader.read() resolves with a chunk
ReadChunk ==
    /\ pc = "reading"
    /\ \E c \in NextChunks : Deliver(c)
    /\ UNCHANGED <<encoderVars, statusData, invocationVars, pc, resp, threw, calls, answers,
                   fetchVars>>

\* reader.read() rejects
ReadError ==
    /\ pc = "reading"
    /\ Raise(FunctionName, "read", NetworkError)
    /\ UNCHANGED <<encoderVars, statusData, invocationVars, calls, answers, fetchVars, streamVars>>

\* at done, what is left in the buffer is gone over as one more line
ReadDone_FlushesBuffer ==
    /\ pc = "reading"
    /\ LET st == ProcessLine(variant, [imageUrl |-> imageUrl, errorMessage |-> errorMessage,
                                       status |-> status], buffer)
       IN Return(StreamResult(variant, st.imageUrl, st.errorMessage))
    /\ UNCHANGED <<encoderVars, statusData, invocationVars, calls, answers, fetchVars, streamVars>>

\* reader.read() resolves with done: the loop ends and the response is built
ReadDone ==
    /\ pc = "reading"
    /\ Return(StreamResult(variant, imageUrl, errorMessage))
    /\ UNCHANGED <<encoderVars, statusData, invocationVars, calls, answers, fetchVars, streamVars>>

Next ==
    \/ HandleRequest
    \/ SubmitRequest
    \/ GenerateImage
    \/ ProxyRequest
    \/ SubmitResponse
    \/ EndpointError
    \/ EndpointResponse
    \/ ProxyResponse
    \/ CheckStatus
    \/ CheckResponse
    \/ ResultResponse
    \/ ImageResponse
    \/ ReadChunk
    \/ ReadError
    \/ ReadDone

Spec == Init /\ [][Next]_vars

\* ======================================================================
\* Properties
\* ======================================================================

Range(f) == {f[i] : i \in DOMAIN f}

Max(S) == CHOOSE x \in S : \A y \in S : y <= x

\* the request is a submit, or a poll of the two-phase variant
IsSubmit == req.method = "POST"
IsPoll == variant = "index" /\ req.method = "GET" /\ req.requestId \notin {Undefined, <<>>}

\* the read loop of a streaming variant ran until the stream signalled its end
StreamEnded ==
    /\ variant \in Streaming
    /\ pc = "done"
    /\ Ok(apiResponse) /\ apiResponse.hasBody
    /\ "read" \notin Range(threw)

\* what a line says, read as an event-stream record
RecordOf(line) ==
    IF StartsWith(line, DataPrefix) THEN JSONParse(Slice(line, Len(DataPrefix))) ELSE ParseFail
IsRecord(rec) == rec.ok /\ rec.kind = "object"
IsErrorRecord(rec) == IsRecord(rec) /\ Get(rec.obj, KeyStatus) = Error
IsCompleteRecord(rec) ==
    /\ IsRecord(rec)
    /\ Get(rec.obj, KeyStatus) = Complete
    /\ Get(rec.obj, KeyImageUrl) \notin {Undefined, <<>>}

\* the stream text handed out so far: its newline-terminated lines in order,
\* the unterminated rest, the record each line is, and the positions of the
\* error records and of the complete records with an imageUrl
Stream ==
    LET parts == Split(delivered)
        lines == SubSeq(parts, 1, Len(parts) - 1)
        recs == [i \in DOMAIN lines |-> RecordOf(lines[i])]
    IN [lines |-> lines, rest |-> parts[Len(parts)], recs |-> recs,
        errors |-> {i \in DOMAIN lines : IsErrorRecord(recs[i])},
        completes |-> {i \in DOMAIN lines : IsCompleteRecord(recs[i])}]

IsSuccess(r) == r.kind = "json" /\ r.body.imageUrl # Undefined /\ r.body.error = Undefined
IsFailure(r) == r.kind = "json" /\ r.body.error # Undefined /\ r.body.imageUrl = Undefined
NoImageText(v) ==
    IF v = "part_000" THEN Lit("No image URL received from SubNP")
    ELSE Lit("No image URL received")
IsNoResult(r) == IsFailure(r) /\ r.body.error = NoImageText(variant)

\* C1: every POST, and every GET with a requestId in the two-phase variant,
\* is answered with HTTP status 200, whatever the body and the backend do.
C1_AlwaysStatus200 ==
    (pc = "done" /\ (IsSubmit \/ IsPoll)) => resp.status = 200

WellFormedPrompt ==
    /\ req.body.kind = "object"
    /\ req.body.prompt.type = "string"
    /\ Trim(req.body.prompt.text) # <<>>

\* C3: for a well-formed prompt, the body returned by a submit carries a
\* status field that is one of submitted, completed, error.
C3_SubmitStatusField ==
    (pc = "done" /\ IsSubmit /\ WellFormedPrompt) =>
        /\ resp.kind = "json"
        /\ resp.body.status \in {Lit("submitted"), Lit("completed"), Lit("error")}

\* C4: a POST without a prompt gets a 200 envelope "Prompt is required", a
\* POST that is not JSON gets a 200 envelope naming the parse failure, and
\* neither makes an outbound call.
C4_ClientInputError ==
    /\ (pc = "done" /\ IsSubmit /\ req.body.kind = "object"
            /\ req.body.prompt.type = "undefined") =>
            /\ resp.status = 200 /\ resp.kind = "json"
            /\ resp.body.error = Lit("Prompt is required")
            /\ calls = <<>>
    /\ (pc = "done" /\ IsSubmit /\ req.body.kind = "invalid") =>
            /\ resp.status = 200 /\ resp.kind = "json"
            /\ resp.body.error \in {Lit("Invalid JSON in request body"), Lit(SyntaxError.message)}
            /\ calls = <<>>

\* C5: the prompt is validated after trimming: a whitespace-only prompt is
\* rejected with "Prompt is required" without a backend call, and no
\* outbound submit carries an empty prompt.
C5_TrimmedValidation ==
    /\ \A i \in DOMAIN calls : calls[i].prompt # <<>>
    /\ (IsSubmit /\ req.body.kind = "object" /\ req.body.prompt.type = "string"
            /\ Trim(req.body.prompt.text) = <<>>) =>
            /\ calls = <<>>
            /\ pc = "done" => resp.body.error = Lit("Prompt is required")

\* C6: OPTIONS gives 204 without a body; POST runs submit; GET with a
\* requestId runs poll in the two-phase variant; anything else gives 405
\* with the JSON body {"error": "Method not allowed"}; 204 and 405 make no
\* outbound call.
C6_Router ==
    pc = "done" =>
        CASE req.method = "OPTIONS" ->
                resp.status = 204 /\ resp.kind = "null" /\ calls = <<>>
          [] IsPoll ->
                /\ resp.status \notin {204, 405}
                /\ calls # <<>> /\ calls[1].url = HordeCheckUrl \o req.requestId
          [] IsSubmit ->
                /\ resp.status \notin {204, 405}
                /\ \A i \in DOMAIN calls :
                        calls[i].url \in {HordeSubmitUrl, ProxyUrl} \cup Range(apiUrls)
          [] OTHER ->
                /\ resp.status = 405 /\ resp.kind = "json"
                /\ resp.body.error = Lit("Method not allowed")
                /\ calls = <<>>

\* C7: once the stream is exhausted, an error record anywhere among its
\* lines makes the result a failure, also when a complete record with an
\* imageUrl follows it; without an error record a complete record with an
\* imageUrl makes it a success; without either it is "no result".
C7_DecoderPrecedence ==
    StreamEnded =>
        LET s == Stream IN
        IF s.errors # {} THEN IsFailure(resp) /\ ~IsNoResult(resp)
        ELSE IF s.completes # {} THEN IsSuccess(resp)
        ELSE IsNoResult(resp)

\* an error record followed by a complete record with an imageUrl
C7_Witness ==
    /\ StreamEnded
    /\ Stream.lines = <<LineErrorMsg, LineCompleteA>>
    /\ IsFailure(resp) /\ resp.body.error = <<"m">>

\* C8: a line that is no record (bad JSON after the prefix, or no prefix)
\* is skipped: while reading, imageUrl and errorMessage are what the records
\* among the terminated lines alone determine and the buffer is the
\* unterminated rest; a stream of such lines and complete records with an
\* imageUrl ends in success with the image reference of such a record.
C8_MalformedSkipped ==
    /\ (variant \in Streaming /\ pc = "reading") =>
            LET s == Stream IN
            /\ buffer = s.rest
            /\ (s.errors = {}) = (errorMessage = Undefined)
            /\ imageUrl = IF s.completes = {} THEN Undefined
                          ELSE Get(s.recs[Max(s.completes)].obj, KeyImageUrl)
    /\ StreamEnded =>
            LET s == Stream IN
            (s.completes # {}
                /\ \A i \in DOMAIN s.lines : i \in s.completes \/ ~IsRecord(s.recs[i])) =>
            /\ IsSuccess(resp)
            /\ \E i \in s.completes : resp.body.imageUrl = Get(s.recs[i].obj, KeyImageUrl)

\* cut-off JSON before a complete record, and the stream has ended
C8_Witness ==
    /\ StreamEnded
    /\ Stream.lines = <<LineBadJson, LineCompleteA>>
    /\ IsSuccess(resp) /\ resp.body.imageUrl = UrlA

\* C9: a stream with no error record and no complete record carrying a
\* non-empty imageUrl (empty, processing only, complete without imageUrl)
\* gives the "no image URL received" failure, and a success envelope is
\* returned only if some complete record carried a non-empty imageUrl.
C9_NoResult ==
    StreamEnded =>
        LET s == Stream IN
        /\ (s.errors = {} /\ s.completes = {}) => IsNoResult(resp)
        /\ resp.body.imageUrl # Undefined =>
                \E i \in DOMAIN s.lines :
                    /\ Get(s.recs[i].obj, KeyStatus) = Complete
                    /\ Get(s.recs[i].obj, KeyImageUrl) = resp.body.imageUrl
                    /\ resp.body.imageUrl # <<>>

\* a processing record and a complete record without imageUrl
C9_Witness ==
    /\ StreamEnded
    /\ Stream.lines = <<LineProcessing, LineCompleteNoUrl>>
    /\ IsNoResult(resp)

\* C10: with error records the failure carries the message of the last
\* one (the variant's default when it has none); with complete records and
\* no error record the success carries the imageUrl of the last complete
\* record that had one, whatever comes after it.
C10_LastRecordWins ==
    StreamEnded =>
        LET s == Stream IN
        /\ s.errors # {} =>
                LET m == Get(s.recs[Max(s.errors)].obj, KeyMessage) IN
                resp.body.error =
                    IF m \in {Undefined, <<>>}
                    THEN (IF variant = "part_000" THEN Lit("Unknown error from SubNP")
                          ELSE Lit("Unknown error"))
                    ELSE m
        /\ (s.errors = {} /\ s.completes # {}) =>
                resp.body.imageUrl = Get(s.recs[Max(s.completes)].obj, KeyImageUrl)

\* a complete record followed by a processing record
C10_Witness ==
    /\ StreamEnded
    /\ Stream.lines = <<LineCompleteB, LineProcessing>>
    /\ status = Lit("processing")
    /\ IsSuccess(resp) /\ resp.body.imageUrl = UrlB

\* ---------------------------------------------------------- endpoint list

\* the text of the failure envelope that reports status code of an endpoint
EndpointErrorText(code) == Lit("SubNP API error: ") \o Num(code)

\* C11: part_000 tries its endpoints in the order of the list; when endpoint
\* A answers 404 endpoint B is called, and when B then answers 200 the
\* response is what B's stream decodes to; when A answers another non-OK
\* status, B is never called and the failure envelope reports A's status.
C11_EndpointOrder ==
    variant = "part_000" =>
        /\ \A i \in DOMAIN calls : i <= Len(apiUrls) /\ calls[i].url = apiUrls[i]
        /\ (answers # <<>> /\ answers[1] = 404) => Len(calls) = 2
        /\ (answers = <<404, 200>> /\ apiResponse.hasBody) =>
                /\ pc \in {"reading", "done"}
                /\ (pc = "done" /\ "read" \notin Range(threw)) =>
                        resp = StreamResult(variant, imageUrl, errorMessage)
        /\ (answers # <<>> /\ answers[1] \notin {Rejected, 404, 200}) =>
                /\ Len(calls) = 1
                /\ pc = "done"
                /\ "text" \notin Range(threw) =>
                        /\ IsFailure(resp)
                        /\ resp.body.error = EndpointErrorText(answers[1])
                        /\ resp.body.details = apiResponse.text

\* endpoint A answered 404, B answered 200 and its stream gave the image
C11_Witness ==
    /\ variant = "part_000"
    /\ pc = "done"
    /\ answers = <<404, 200>>
    /\ calls[2].url = apiUrls[2]
    /\ Stream.lines = <<LineCompleteA>>
    /\ IsSuccess(resp) /\ resp.body.imageUrl = UrlA

NotDoneYet ==
    /\ IsPoll
    /\ answers # <<>> /\ answers[1] = 200
    /\ statusData.kind = "object" /\ ~statusData.faulted /\ ~statusData.done

\* C13: a poll whose check call succeeds and reports neither faulted nor
\* done returns {status: "processing", queuePosition, waitTime, done: false}
\* with the backend's queue_position and wait_time (0 when absent), and the
\* result call is not issued.
C13_ProcessingSnapshot ==
    NotDoneYet =>
        /\ pc = "done"
        /\ resp.kind = "json" /\ resp.status = 200
        /\ resp.body.status = Lit("processing")
        /\ resp.body.done = Lit("false")
        /\ resp.body.queuePosition =
                (IF statusData.queue_position = -1 THEN 0 ELSE statusData.queue_position)
        /\ resp.body.waitTime =
                (IF statusData.wait_time = -1 THEN 0 ELSE statusData.wait_time)
        /\ resp.body.error = Undefined /\ resp.body.imageUrl = Undefined
        /\ Len(calls) = 1
        /\ calls[1].url = HordeCheckUrl \o req.requestId

\* queue position 3 and no wait time reported
C13_Witness ==
    /\ NotDoneYet
    /\ statusData.queue_position = 3 /\ statusData.wait_time = -1
    /\ resp.body.queuePosition = 3 /\ resp.body.waitTime = 0
    /\ resp.body.status = Lit("processing")

\* ------------------------------------------------------- image reference

\* the image reference u is a data: URI / a remote http(s) URL
IsDataUri(u) ==
    \/ StartsWith(u, <<"d", "a", "t", "a", ":">>)
    \/ u # <<>> /\ u[1] \in {"data:", "data:image/png;base64,"}
IsRemoteUrl(u) == StartsWith(u, Http) \/ StartsWith(u, Https)

\* C14: the imageUrl of every success envelope is a data: URI and never a
\* remote http(s) URL, in the two-phase variant and in the streaming ones.
C14_SelfContainedImage ==
    (pc = "done" /\ IsSuccess(resp)) =>
        IsDataUri(resp.body.imageUrl) /\ ~IsRemoteUrl(resp.body.imageUrl)

\* ---------------------------------------------------------- the encoder
\* The conversion of checkStatus on its own: bytes of the lengths where the
\* chunking matters are converted by the loop and by btoa, one call each.

\* the longest image tried has this many full chunks, and one byte more
MaxChunks == 2

\* the byte patterns tried are numbered from 0 to this
MaxPattern == 5

\* the lengths tried: none, the sizes of the base64 groups, and around the
\* chunk boundaries
EncoderLengths ==
    {0, 1, 2, 3, chunkSize - 1, chunkSize, chunkSize + 1}
    \cup {c * chunkSize + 1 : c \in 2..MaxChunks}

\* the byte at index k of pattern p: no two chunks of an image are alike
PatternByte(p, k) == (k * (2 * p + 1) + (k \div 251) + 37 * p) % 256

EncoderInputs ==
    {[k \in 1..n |-> PatternByte(p, k)] : n \in EncoderLengths, p \in 0..MaxPattern}

EncoderInit ==
    /\ variant = "index"
    /\ pc = "convert"
    /\ req = [method |-> "GET", requestId |-> Lit("abc123"),
              body |-> [kind |-> "invalid",
                        prompt |-> [type |-> "undefined", text |-> Undefined]]]
    /\ resp = NoResponse
    /\ threw = <<>>
    /\ calls = <<>>
    /\ answers = <<>>
    /\ statusData = NoStatusData
    /\ bytes \in EncoderInputs
    /\ binary = <<>>
    /\ base64 = <<>>
    /\ apiResponse = NullResponse
    /\ lastError = Undefined
    /\ ep = 0
    /\ delivered = <<>>
    /\ pending = <<>>
    /\ nlines = 0
    /\ interpreted = <<>>
    /\ buffer = <<>>
    /\ imageUrl = Undefined
    /\ errorMessage = Undefined
    /\ status = Lit("processing")

\* the for loop over the chunks of bytes
Convert ==
    /\ pc = "convert"
    /\ binary' = ChunkLoop(bytes, 0, chunkSize, <<>>)
    /\ pc' = "btoa"
    /\ UNCHANGED <<invocationVars, resp, threw, calls, answers, statusData, bytes, base64,
                   fetchVars, streamVars>>

\* const base64 = btoa(binary)
Encode ==
    /\ pc = "btoa"
    /\ base64' = Btoa(binary)
    /\ pc' = "encoded"
    /\ UNCHANGED <<invocationVars, resp, threw, calls, answers, statusData, bytes, binary,
                   fetchVars, streamVars>>

EncoderNext == Convert \/ Encode

EncoderSpec == EncoderInit /\ [][EncoderNext]_vars

\* the value of each character of the base64 alphabet
Base64Value ==
    [c \in Range(Base64Alphabet) \cup {"="} |->
        IF c = "=" THEN 0 ELSE (CHOOSE i \in 1..64 : Base64Alphabet[i] = c) - 1]

\* the standard decoding of base64 text t: three bytes for every four
\* characters, less one for each "=" at the end
Atob(t) ==
    LET n == Len(t)
        pad == IF n = 0 THEN 0
               ELSE IF t[n - 1] = "=" THEN 2 ELSE IF t[n] = "=" THEN 1 ELSE 0
        byte(k) ==
            LET g == (k - 1) \div 3
                v1 == Base64Value[t[4 * g + 1]]
                v2 == Base64Value[t[4 * g + 2]]
                v3 == Base64Value[t[4 * g + 3]]
                v4 == Base64Value[t[4 * g + 4]]
            IN CASE (k - 1) % 3 = 0 -> (v1 * 4) + (v2 \div 16)
                 [] (k - 1) % 3 = 1 -> ((v2 % 16) * 16) + (v3 \div 4)
                 [] OTHER -> ((v3 % 4) * 64) + v4
    IN [k \in 1..(3 * (n \div 4) - pad) |-> byte(k)]

\* C15: the chunked conversion is reversible: the loop over chunks of 8192
\* turns the bytes into a text with the same code units in the same order,
\* and decoding the base64 of that text gives back exactly the bytes, for
\* the lengths 0, 1, chunk-1, chunk, chunk+1 and several chunks.
C15_EncoderRoundTrip ==
    /\ pc \in {"btoa", "encoded"} =>
            Len(binary) = Len(bytes) /\ \A k \in 1..Len(bytes) : binary[k] = bytes[k]
    /\ pc = "encoded" =>
            /\ Len(base64) = 4 * ((Len(bytes) + 2) \div 3)
            /\ LET back == Atob(base64) IN
                Len(back) = Len(bytes) /\ \A k \in 1..Len(bytes) : back[k] = bytes[k]

\* an image of one chunk and one byte more has been encoded
C15_Witness ==
    /\ pc = "encoded"
    /\ Len(bytes) = chunkSize + 1
    /\ bytes[chunkSize] # bytes[chunkSize + 1]
    /\ Len(base64) = 10924
    /\ Atob(base64)[chunkSize + 1] = bytes[chunkSize + 1]

\* ---------------------------------------------------------- detail text

\* the length of the longest body a backend sends with a non-OK status
LongestErrorText == Max({Len(t) : t \in ErrorTexts})

\* the submit ended on a backend's answer with a non-success status
SubmitRefused ==
    /\ IsSubmit /\ pc = "done"
    /\ \E i \in DOMAIN answers : answers[i] \notin {Rejected, 200}
    /\ resp.body.details # Undefined
    /\ "text" \notin Range(threw)

\* C16: the details text of the failure envelope for a non-success backend
\* status is cut to a fixed length: it stays shorter than the longest body
\* the backend sends, however long that body is.
C16_DetailsTruncated ==
    SubmitRefused => Len(resp.body.details) < LongestErrorText

\* ------------------------------------------- the decoder on its own
\* The read loop of the streaming variants on a stream text that ends with a
\* newline, cut into chunks in every possible way.

\* a stream text has at most this many lines
MaxDecoderLines == 2

\* the lines the stream texts are made of
DecoderLines == {LineCompleteA, LineErrorNoMsg, LineBadJson, LineEmpty}

\* the texts of exactly n lines, each ended by a newline
RECURSIVE TextsOf(_)
TextsOf(n) ==
    IF n = 0 THEN {<<>>}
    ELSE {Append(l, NL) \o t : l \in DecoderLines, t \in TextsOf(n - 1)}

DecoderTexts == UNION {TextsOf(n) : n \in 0..MaxDecoderLines}

\* the decoder's variables before the first chunk
FreshDecoder == [imageUrl |-> Undefined, errorMessage |-> Undefined, status |-> Lit("processing")]

DecoderInit ==
    /\ variant \in Streaming
    /\ pc = "reading"
    /\ req = [method |-> "POST", requestId |-> Undefined,
              body |-> [kind |-> "object", prompt |-> [type |-> "string", text |-> <<"a">>]]]
    /\ resp = NoResponse
    /\ threw = <<>>
    /\ calls = <<[url |-> ProxyUrl, prompt |-> <<"a">>]>>
    /\ answers = <<200>>
    /\ statusData = NoStatusData
    /\ bytes = <<>>
    /\ binary = <<>>
    /\ base64 = <<>>
    /\ apiResponse = [status |-> 200, text |-> <<>>, hasBody |-> TRUE]
    /\ lastError = Undefined
    /\ ep = IF variant = "part_000" THEN 1 ELSE 0
    /\ delivered = <<>>
    /\ pending \in DecoderTexts
    /\ nlines = 0
    /\ interpreted = <<>>
    /\ buffer = FreshBuffer
    /\ imageUrl = FreshDecoder.imageUrl
    /\ errorMessage = FreshDecoder.errorMessage
    /\ status = FreshDecoder.status

\* reader.read() resolves with the next characters of the text, however many
ReadAny ==
    /\ pc = "reading"
    /\ \E k \in 1..Len(pending) :
        Deliver([chunk |-> SubSeq(pending, 1, k),
                 rest |-> SubSeq(pending, k + 1, Len(pending)), started |-> 0])
    /\ UNCHANGED <<encoderVars, statusData, invocationVars, pc, resp, threw, calls, answers,
                   fetchVars>>

\* the loop also left as soon as a complete or an error record has been seen
ReadEnd_EarlyStop ==
    /\ pending = <<>> \/ imageUrl # Undefined \/ errorMessage # Undefined
    /\ ReadDone

\* reader.read() resolves with done once the whole text is out
ReadEnd ==
    /\ pending = <<>>
    /\ ReadDone

DecoderNext == ReadAny \/ ReadEnd

DecoderSpec == DecoderInit /\ [][DecoderNext]_vars

\* the read that finds the stream at its end resolves, and the function
\* runs on from the loop to its return
DecoderLiveSpec == DecoderSpec /\ WF_vars(ReadEnd)

\* C17: however the text is cut into chunks, the for loop has gone over
\* exactly the newline-terminated lines handed out so far, each once, whole
\* and in order, the buffer is the unterminated rest, and imageUrl and
\* errorMessage are what the same text gives when handed out as one chunk;
\* so at the end of a text that ends with a newline the response is that of
\* the single-chunk delivery.
C17_ChunkIndependence ==
    LET one == Consume(variant, FreshBuffer, FreshDecoder, delivered) IN
    /\ interpreted = Stream.lines
    /\ interpreted = one.lines
    /\ buffer = Stream.rest
    /\ imageUrl = one.imageUrl
    /\ errorMessage = one.errorMessage
    /\ pc = "done" =>
            /\ pending = <<>> /\ buffer = <<>>
            /\ resp = StreamResult(variant, one.imageUrl, one.errorMessage)

\* the first line has been interpreted and the second is cut inside its
\* prefix: nothing of it has been interpreted
C17_Witness ==
    /\ pc = "reading"
    /\ delivered = Append(LineErrorNoMsg, NL) \o <<"d", "a", "t">>
    /\ pending = SubSeq(Append(LineCompleteA, NL), 4, Len(LineCompleteA) + 1)
    /\ interpreted = <<LineErrorNoMsg>>
    /\ buffer = <<"d", "a", "t">>
    /\ errorMessage = DefaultError(variant) /\ imageUrl = Undefined

\* a complete record with an imageUrl or an error record has been interpreted
TerminalSeen == imageUrl # Undefined \/ errorMessage # Undefined

\* C18: the read loop is left only at end-of-data: while text is still to
\* come no response is produced, also after a complete or error record has
\* been interpreted; at the response every line of the stream has been
\* interpreted, those after such a record included; and once the stream is
\* at its end the loop is left and the response returned.
C18_DrainsStream ==
    /\ [](pc = "done" =>
            /\ pending = <<>>
            /\ interpreted = Stream.lines
            /\ resp = StreamResult(variant, imageUrl, errorMessage))
    /\ [][(pc = "reading" /\ pending # <<>>) => pc' = "reading"]_vars
    /\ [][(pc = "reading" /\ TerminalSeen /\ pending # <<>>) =>
            (resp' = NoResponse /\ Len(delivered') > Len(delivered))]_vars
    /\ (pc = "reading" /\ pending = <<>>) ~> (pc = "done")

\* the complete record that came after an error record was interpreted too
C18_Witness ==
    /\ pc = "done"
    /\ interpreted = <<LineErrorNoMsg, LineCompleteA>>
    /\ errorMessage = DefaultError(variant)
    /\ imageUrl = UrlA
    /\ IsFailure(resp)

\* ---------------------------------------------------- order of the calls

\* C19: in index.js the outbound calls are made one after the other, each
\* after the answer to the one before: a poll calls check, then result only
\* if check answered OK with a job done and not faulted, then the image only
\* if result answered OK with an http(s) img (an inline image is returned
\* after two calls); a call that fails ends the poll with a failure envelope
\* and no later call; a poll makes at most three calls, a submit at most
\* one, and no URL is called twice.
C19_CallOrder ==
    variant = "index" =>
        /\ Len(calls) - Len(answers) \in {0, 1}
        /\ (Len(calls) > Len(answers)) =
                (pc \in {"submitFetch", "checkFetch", "resultFetch", "imageFetch"})
        /\ \A i, j \in DOMAIN calls : calls[i].url = calls[j].url => i = j
        /\ IsSubmit => (Len(calls) <= 1 /\ \A i \in DOMAIN calls : calls[i].url = HordeSubmitUrl)
        /\ IsPoll =>
                /\ Len(calls) <= 3
                /\ Len(calls) >= 1 => calls[1].url = HordeCheckUrl \o req.requestId
                /\ Len(calls) >= 2 =>
                        /\ calls[2].url = HordeStatusUrl \o req.requestId
                        /\ answers[1] = 200
                        /\ statusData.kind = "object"
                        /\ statusData.done /\ ~statusData.faulted
                /\ Len(calls) >= 3 =>
                        /\ IsRemoteUrl(calls[3].url)
                        /\ answers[2] = 200
                /\ (pc = "done" /\ IsSuccess(resp)) =>
                        /\ Len(calls) \in {2, 3}
                        /\ \A i \in DOMAIN answers : answers[i] = 200
                        /\ Len(calls) = 2 =>
                                resp.body.imageUrl =
                                    Lit("data:image/png;base64,") \o InlineBase64
        /\ \A i \in DOMAIN answers :
                answers[i] # 200 => (pc = "done" /\ Len(calls) = i /\ IsFailure(resp))
        /\ threw # <<>> => (pc = "done" /\ Len(calls) = Len(answers) /\ IsFailure(resp))

\* a poll that went through the three calls and returned the image
C19_Witness ==
    /\ variant = "index" /\ IsPoll /\ pc = "done"
    /\ Len(calls) = 3
    /\ answers = <<200, 200, 200>>
    /\ calls[3].url = UrlHttps
    /\ IsSuccess(resp)

\* ----------------------------------------------- the unterminated last line

\* the text after the last newline is a complete record with an imageUrl or
\* an error record
RestIsTerminal ==
    LET rec == RecordOf(Stream.rest) IN IsCompleteRecord(rec) \/ IsErrorRecord(rec)

\* C20: what the stream sent after its last newline is never interpreted:
\* at end-of-data it is still in the buffer, the lines gone over are the
\* newline-terminated ones alone, and the response is what those give; a
\* stream whose only complete or error record is that unterminated last line
\* gets the "no image URL received" failure.
C20_UnterminatedLineDropped ==
    StreamEnded =>
        LET s == Stream
            st == ProcessLines(variant, FreshDecoder, s.lines)
        IN /\ interpreted = s.lines
           /\ buffer = s.rest
           /\ resp = StreamResult(variant, st.imageUrl, st.errorMessage)
           /\ (s.errors = {} /\ s.completes = {}) => IsNoResult(resp)

\* a processing line, then a complete record that lacks its newline
C20_Witness ==
    /\ StreamEnded
    /\ Stream.lines = <<LineProcessing>>
    /\ Stream.rest = LineCompleteA
    /\ RestIsTerminal
    /\ buffer = LineCompleteA
    /\ IsNoResult(resp)

\* ------------------------------------------ the envelope of a failed loop

\* the endpoint loop of part_000 was left without an OK answer and the
\* failure envelope was built (no text() of a response was rejected)
LoopFailed ==
    /\ variant = "part_000" /\ pc = "done"
    /\ answers # <<>> /\ answers[Len(answers)] # 200
    /\ "text" \notin Range(threw)

\* C21: when the endpoint loop of part_000 is left without an OK answer, the
\* failure envelope describes the last endpoint attempted: its HTTP status
\* when it answered, "Connection failed" with the text of the network error
\* when its fetch was rejected; after A answered 404 and B's fetch was
\* rejected the envelope reports B's connection failure, not A's 404.
C21_LastAttemptReported ==
    LoopFailed =>
        LET last == answers[Len(answers)] IN
        /\ IsFailure(resp)
        /\ last = Rejected =>
                /\ resp.body.error = Lit("SubNP API error: ") \o Lit("Connection failed")
                /\ resp.body.details = Lit(NetworkError.message)
        /\ last # Rejected =>
                /\ resp.body.error = EndpointErrorText(last)
                /\ resp.body.details = apiResponse.text

\* --------------------------------------------------------- a faulted job

\* the check call of a poll succeeded and reported a faulted job
JobFaulted ==
    /\ IsPoll
    /\ answers # <<>> /\ answers[1] = 200
    /\ statusData.kind = "object" /\ statusData.faulted

\* C22: in a poll a faulted job takes precedence over done: whenever the
\* check call reports faulted the poll returns the failure envelope with
\* status "failed", whatever the done flag says, and neither the result call
\* nor the image fetch is issued; status "failed" comes from no other path.
C22_FaultedFirst ==
    /\ JobFaulted =>
        /\ pc = "done"
        /\ resp.kind = "json" /\ resp.status = 200
        /\ resp.body.status = Lit("failed")
        /\ resp.body.error = Lit("Image generation failed on AI Horde")
        /\ resp.body.details = Lit("true")
        /\ resp.body.imageUrl = Undefined
        /\ threw = <<>>
        /\ Len(calls) = 1 /\ answers = <<200>>
        /\ calls[1].url = HordeCheckUrl \o req.requestId
    /\ (resp.kind = "json" /\ resp.body.status = Lit("failed")) => JobFaulted

\* the check call reported a job both faulted and done
C22_Witness ==
    /\ JobFaulted
    /\ statusData.done
    /\ pc = "done"
    /\ resp.body.status = Lit("failed")
    /\ Len(calls) = 1

====
